---- MODULE Spec2Model ----
(***************************************************************************)
(* The tree-walking evaluator of kk-lang (src/main.rs) over its runtime    *)
(* value type (src/value.rs).  The interpreter owns one flat environment   *)
(* (a HashMap from names to values); eval_file evaluates the top-level     *)
(* expressions of a script one after the other and a panic aborts the run. *)
(***************************************************************************)
EXTENDS Integers, Sequences, FiniteSets, TLC

VARIABLES
    env,      \* Interpreter.env.vars: the map from variable names to values
    out,      \* the lines written to standard output so far
    panic,    \* "" while the process runs, else the message of the panic that aborted it
    build,    \* the build profile: "debug" checks integer overflow, "release" wraps
    nforms,   \* the number of top-level expressions eval_file has evaluated
    last      \* history: the latest top-level evaluation (expression, state before, result)

vars == <<env, out, panic, build, nforms, last>>

----------------------------------------------------------------------------
(* Bounds of the model *)

\* The width of Value::Int in the model (i64 in the source, scaled down).
IntBits == 4
\* The number of top-level expressions of a script.
MaxForms == 2

IntMax == 2 ^ (IntBits - 1) - 1
IntMin == 0 - 2 ^ (IntBits - 1)
I64 == IntMin .. IntMax

----------------------------------------------------------------------------
(* value.rs: Value.  Floats are modelled in halves (n = 2 * the number),  *)
(* which is exact for the small values of the model; s distinguishes NaN   *)
(* and the negative zero.                                                  *)

IntV(n) == [k |-> "Int", n |-> n, s |-> "", b |-> FALSE]
FloatV(h) == [k |-> "Float", n |-> h, s |-> "", b |-> FALSE]
NaN == [k |-> "Float", n |-> 0, s |-> "NaN", b |-> FALSE]
NegZero == [k |-> "Float", n |-> 0, s |-> "-0", b |-> FALSE]
StringV(str) == [k |-> "String", n |-> 0, s |-> str, b |-> FALSE]
BoolV(bb) == [k |-> "Bool", n |-> 0, s |-> "", b |-> bb]
Null == [k |-> "Null", n |-> 0, s |-> "", b |-> FALSE]
Void == [k |-> "Void", n |-> 0, s |-> "", b |-> FALSE]

Abs(n) == IF n < 0 THEN 0 - n ELSE n

\* f64::to_string of a float held in halves: 1.0 prints as 1, 2.5 as 2.5
FloatToString(v) ==
    IF v.s # "" THEN v.s
    ELSE IF v.n % 2 = 0 THEN ToString(v.n \div 2)
    ELSE (IF v.n < 0 THEN "-" ELSE "") \o ToString(Abs(v.n) \div 2) \o ".5"

\* Value::to_string
to_string(v) ==
    CASE v.k = "Int" -> ToString(v.n)
      [] v.k = "Float" -> FloatToString(v)
      [] v.k = "String" -> v.s
      [] v.k = "Bool" -> (IF v.b THEN "true" ELSE "false")
      [] v.k = "Null" -> "null"
      [] v.k = "Void" -> "void"

----------------------------------------------------------------------------
(* Rust arithmetic on i64 and f64 *)

\* i64 % i64 for a nonzero divisor: the remainder truncates toward zero
TruncRem(a, b) == IF a >= 0 THEN a % Abs(b) ELSE 0 - ((0 - a) % Abs(b))

\* two's complement wrap of an out-of-range sum
Wrap(n) == ((n - IntMin) % (2 ^ IntBits)) + IntMin

\* f64 == f64: NaN is unequal to everything, -0.0 equals 0.0
FloatEq(a, b) == a.s # "NaN" /\ b.s # "NaN" /\ a.n = b.n

\* f64 % f64: NaN for a NaN operand or a zero divisor; the sign is the dividend's
FloatRem(a, b) ==
    IF a.s = "NaN" \/ b.s = "NaN" \/ b.n = 0 THEN NaN
    ELSE LET r == TruncRem(a.n, b.n)
         IN IF r = 0 /\ (a.n < 0 \/ a.s = "-0") THEN NegZero ELSE FloatV(r)

\* f64 + 1.0
FloatInc(a) == IF a.s = "NaN" THEN NaN ELSE FloatV(a.n + 2)

\* i64 as f64
Widen(n) == FloatV(2 * n)

----------------------------------------------------------------------------
(* sexpr: SExpr, an Atom of text or a List of expressions *)

Atom(text) == [t |-> "Atom", s |-> text, l |-> <<>>]
List(items) == [t |-> "List", s |-> "", l |-> items]

\* the decimal text of a float held in halves, as a script writes it: 7.5, 1.0
FloatText(h) ==
    (IF h < 0 THEN "-" ELSE "") \o ToString(Abs(h) \div 2)
        \o (IF h % 2 = 0 THEN ".0" ELSE ".5")

\* the halves for which the model knows a float literal
FloatRange == (0 - 2 ^ IntBits) .. (2 ^ IntBits)
\* the integers whose decimal text the model knows
DecimalRange == (0 - 2 ^ IntBits) .. (2 ^ IntBits)

\* the texts that parse, and what they parse to
IntTexts == {ToString(n) : n \in I64}
IntOfText == [str \in IntTexts |-> CHOOSE n \in I64 : ToString(n) = str]
DecimalTexts == {ToString(n) : n \in DecimalRange}
DecimalOfText == [str \in DecimalTexts |-> CHOOSE n \in DecimalRange : ToString(n) = str]
FloatTexts == {FloatText(h) : h \in FloatRange}
FloatOfText == [str \in FloatTexts |-> CHOOSE h \in FloatRange : FloatText(h) = str]

\* str.parse::<i64>(): the decimal text of an integer that fits the width
ParsesInt(str) == str \in IntTexts
ParseInt(str) == IntOfText[str]

\* str.parse::<f64>(): integer text of any size, decimal text, NaN
ParsesFloat(str) == str = "NaN" \/ str \in DecimalTexts \/ str \in FloatTexts
ParseFloat(str) ==
    IF str = "NaN" THEN NaN
    ELSE IF str \in DecimalTexts THEN Widen(DecimalOfText[str])
    ELSE FloatV(FloatOfText[str])

----------------------------------------------------------------------------
(* The interpreter state an evaluation threads through: the environment,   *)
(* the output, the panic that ended it ("" for none), the value returned,  *)
(* and iters, a history of the loop iterations begun: <<depth, name,       *)
(* value of the loop variable when the body starts>>.                      *)

Ok(st, val) == [st EXCEPT !.v = val]
Fail(st, msg) == [st EXCEPT !.v = Void, !.err = msg]

\* a variant of Insert that keeps a binding the name already has
InsertIfAbsent(vs, name, val) ==
    [n \in DOMAIN vs \cup {name} |-> IF n = name /\ n \notin DOMAIN vs THEN val ELSE vs[n]]

\* HashMap::insert
Insert(vs, name, val) ==
    [n \in DOMAIN vs \cup {name} |-> IF n = name THEN val ELSE vs[n]]

\* value + 1 on i64: a panic with overflow checks (debug), a wrap without (release)
IntInc(st, n) ==
    IF n + 1 > IntMax /\ build = "debug"
    THEN Fail(st, "attempt to add with overflow")
    ELSE Ok(st, IntV(Wrap(n + 1)))

\* the template pieces between the {} placeholders of the templates of the model
TemplateParts(template) ==
    CASE template = "{}" -> <<"", "">>
      [] template = "v{}" -> <<"v", "">>
      [] OTHER -> <<template>>

RECURSIVE Fill(_, _)
\* dyn_fmt: each placeholder takes the next argument, a missing one is empty
Fill(parts, args) ==
    IF Len(parts) <= 1 THEN parts[1]
    ELSE parts[1] \o (IF args = <<>> THEN "" ELSE to_string(Head(args)))
             \o Fill(Tail(parts), IF args = <<>> THEN <<>> ELSE Tail(args))

DynFmt(template, args) == Fill(TemplateParts(template), args)

\* a variant of ModMatch that takes the integer remainder when one operand is Int
ModMatchIntFirst(st, left, right) ==
    LET l == IF left.k = "Float" THEN left.n \div 2 ELSE left.n
        r == IF right.k = "Float" THEN right.n \div 2 ELSE right.n
    IN CASE left.k = "Float" /\ right.k = "Float" -> Ok(st, FloatRem(left, right))
         [] left.k \in {"Int", "Float"} /\ right.k \in {"Int", "Float"} ->
               IF r = 0
               THEN Fail(st, "attempt to calculate the remainder with a divisor of zero")
               ELSE IF l = IntMin /\ r = -1
               THEN Fail(st, "attempt to calculate the remainder with overflow")
               ELSE Ok(st, IntV(TruncRem(l, r)))
         [] OTHER -> Fail(st, "Expected integer or float values here")

\* main.rs: the match of the "mod" arm
ModMatch(st, left, right) ==
    CASE left.k = "Int" /\ right.k = "Int" ->
            IF right.n = 0
            THEN Fail(st, "attempt to calculate the remainder with a divisor of zero")
            ELSE IF left.n = IntMin /\ right.n = -1
            THEN Fail(st, "attempt to calculate the remainder with overflow")
            ELSE Ok(st, IntV(TruncRem(left.n, right.n)))
      [] left.k = "Float" /\ right.k = "Float" -> Ok(st, FloatRem(left, right))
      [] left.k = "Int" /\ right.k = "Float" -> Ok(st, FloatRem(Widen(left.n), right))
      [] left.k = "Float" /\ right.k = "Int" -> Ok(st, FloatRem(left, Widen(right.n)))
      [] OTHER -> Fail(st, "Expected integer or float values here")

\* a variant of EqMatch where values of different variants are unequal
EqMatchLenient(st, left, right) ==
    CASE left.k = "Int" /\ right.k = "Int" -> Ok(st, BoolV(left.n = right.n))
      [] left.k = "Float" /\ right.k = "Float" -> Ok(st, BoolV(FloatEq(left, right)))
      [] left.k = "String" /\ right.k = "String" -> Ok(st, BoolV(left.s = right.s))
      [] left.k = "Bool" /\ right.k = "Bool" -> Ok(st, BoolV(left.b = right.b))
      [] left.k = "Null" /\ right.k = "Null" -> Ok(st, BoolV(TRUE))
      [] left.k = "Void" /\ right.k = "Void" -> Ok(st, BoolV(TRUE))
      [] OTHER -> Ok(st, BoolV(FALSE))

\* main.rs: the match of the "eq" arm
EqMatch(st, left, right) ==
    CASE left.k = "Int" /\ right.k = "Int" -> Ok(st, BoolV(left.n = right.n))
      [] left.k = "Float" /\ right.k = "Float" -> Ok(st, BoolV(FloatEq(left, right)))
      [] left.k = "String" /\ right.k = "String" -> Ok(st, BoolV(left.s = right.s))
      [] left.k = "Bool" /\ right.k = "Bool" -> Ok(st, BoolV(left.b = right.b))
      [] left.k = "Null" /\ right.k = "Null" -> Ok(st, BoolV(TRUE))
      [] left.k = "Void" /\ right.k = "Void" -> Ok(st, BoolV(TRUE))
      [] OTHER -> Fail(st, "Expected integer or float values here")

\* a variant of IncMatch that increments a Float as an integer
IncMatchAsInt(st, val) ==
    CASE val.k = "Int" -> IntInc(st, val.n)
      [] val.k = "Float" -> IntInc(st, val.n \div 2)
      [] OTHER -> Fail(st, "Variable is not an integer")

\* main.rs: the match of the "inc" arm on the value looked up
IncMatch(st, val) ==
    CASE val.k = "Int" -> IntInc(st, val.n)
      [] val.k = "Float" -> Ok(st, FloatInc(val))
      [] OTHER -> Fail(st, "Variable is not an integer")

\* Interpreter::eval_atom
eval_atom(atom, st) ==
    IF atom = "true" THEN Ok(st, BoolV(TRUE))
    ELSE IF atom = "false" THEN Ok(st, BoolV(FALSE))
    ELSE IF ParsesInt(atom) THEN Ok(st, IntV(ParseInt(atom)))
    ELSE IF ParsesFloat(atom) THEN Ok(st, ParseFloat(atom))
    ELSE Fail(st, "Unknown atom")

----------------------------------------------------------------------------
(* Interpreter::eval and the loops it runs.  d is the nesting depth of     *)
(* count loops around the expression (history only).                       *)

RECURSIVE eval(_, _, _)
RECURSIVE eval_list(_, _, _)
RECURSIVE PrintEach(_, _, _)
RECURSIVE CollectArgs(_, _, _, _)
RECURSIVE CountLoop(_, _, _, _, _, _)
RECURSIVE CountLoopInclusive(_, _, _, _, _, _)
RECURSIVE CountLoopReread(_, _, _, _, _, _)
RECURSIVE CountLoopCStyle(_, _, _, _, _, _)

\* "print" arm: it.for_each(|sexpr| println!("{}", self.eval(sexpr)))
PrintEach(args, st, d) ==
    IF args = <<>> THEN Ok(st, Void)
    ELSE LET r == eval(Head(args), st, d)
         IN IF r.err # "" THEN r
            ELSE PrintEach(Tail(args), [r EXCEPT !.out = Append(@, to_string(r.v))], d)

\* "format" arm: the arguments evaluated in order and collected
CollectArgs(args, st, d, acc) ==
    IF args = <<>> THEN [st |-> st, vals |-> acc]
    ELSE LET r == eval(Head(args), st, d)
         IN IF r.err # "" THEN [st |-> r, vals |-> acc]
            ELSE CollectArgs(Tail(args), r, d, Append(acc, r.v))

EvalFormat(args, st, d) ==
    IF args = <<>> \/ args[1].t # "Atom" THEN Fail(st, "Expected format string here")
    ELSE LET c == CollectArgs(Tail(args), st, d, <<>>)
         IN IF c.st.err # "" THEN c.st
            ELSE Ok(c.st, StringV(DynFmt(args[1].s, c.vals)))

\* the checks "let" and "set" share, and the binding
Bind(args, st, d) ==
    IF args = <<>> \/ args[1].t # "Atom" THEN Fail(st, "Expected variable name here")
    ELSE IF Len(args) < 2 THEN Fail(st, "Expected value here")
    ELSE IF Len(args) > 2 THEN Fail(st, "Expected end of list here")
    ELSE LET r == eval(args[2], st, d)
         IN IF r.err # "" THEN r
            ELSE [r EXCEPT !.env = Insert(@, args[1].s, r.v)]

\* "let" arm: binds and falls through to the final return Value::Void
EvalLet(args, st, d) ==
    LET r == Bind(args, st, d) IN IF r.err # "" THEN r ELSE Ok(r, Void)

\* "set" arm: binds and returns the value
EvalSet(args, st, d) == Bind(args, st, d)

\* a variant of EvalGet where a name that is not bound reads as Null
EvalGetDefault(args, st) ==
    IF args = <<>> \/ args[1].t # "Atom" THEN Fail(st, "Expected variable name here")
    ELSE IF Len(args) > 1 THEN Fail(st, "Expected end of list here")
    ELSE IF args[1].s \notin DOMAIN st.env THEN Ok(st, Null)
    ELSE Ok(st, st.env[args[1].s])

\* "get" arm
EvalGet(args, st) ==
    IF args = <<>> \/ args[1].t # "Atom" THEN Fail(st, "Expected variable name here")
    ELSE IF Len(args) > 1 THEN Fail(st, "Expected end of list here")
    ELSE IF args[1].s \notin DOMAIN st.env THEN Fail(st, "Variable not found")
    ELSE Ok(st, st.env[args[1].s])

\* "inc" arm
EvalInc(args, st) ==
    IF args = <<>> \/ args[1].t # "Atom" THEN Fail(st, "Expected variable name here")
    ELSE IF Len(args) > 1 THEN Fail(st, "Expected end of list here")
    ELSE IF args[1].s \notin DOMAIN st.env THEN Fail(st, "Variable not found")
    ELSE LET r == IncMatch(st, st.env[args[1].s])
         IN IF r.err # "" THEN r
            ELSE [r EXCEPT !.env = Insert(@, args[1].s, r.v)]

\* "mod" arm
EvalMod(args, st, d) ==
    IF args = <<>> THEN Fail(st, "Expected left value here")
    ELSE LET left == eval(args[1], st, d)
         IN IF left.err # "" THEN left
            ELSE IF Len(args) < 2 THEN Fail(left, "Expected right value here")
            ELSE LET right == eval(args[2], left, d)
                 IN IF right.err # "" THEN right
                    ELSE ModMatch(right, left.v, right.v)

\* "eq" arm
EvalEq(args, st, d) ==
    IF args = <<>> THEN Fail(st, "Expected left value here")
    ELSE LET left == eval(args[1], st, d)
         IN IF left.err # "" THEN left
            ELSE IF Len(args) < 2 THEN Fail(left, "Expected right value here")
            ELSE LET right == eval(args[2], left, d)
                 IN IF right.err # "" THEN right
                    ELSE EqMatch(right, left.v, right.v)

\* a branch of "if": a List runs as a sequence of statements, an Atom as an atom
EvalBranch(branch, st, d) ==
    IF branch.t = "List" THEN eval_list(branch.l, st, d) ELSE eval_atom(branch.s, st)

\* a variant of EvalIf that runs the else branch whatever the condition, after
\* the true branch when the condition holds
EvalIfFallThrough(args, st, d) ==
    IF args = <<>> THEN Fail(st, "Expected condition here")
    ELSE LET c == eval(args[1], st, d)
         IN IF c.err # "" THEN c
            ELSE IF c.v.k # "Bool" THEN Fail(c, "Expected boolean value here")
            ELSE IF Len(args) < 2 THEN Fail(c, "Expected true branch here")
            ELSE LET t == IF c.v.b THEN EvalBranch(args[2], c, d) ELSE c
                 IN IF t.err # "" THEN t
                    ELSE IF Len(args) >= 3 /\ args[3].t = "Atom" /\ args[3].s = "else"
                         THEN IF Len(args) < 4 THEN Fail(t, "Expected false branch here")
                              ELSE EvalBranch(args[4], t, d)
                    ELSE IF c.v.b THEN t ELSE Ok(c, Void)

\* "if" arm
EvalIf(args, st, d) ==
    IF args = <<>> THEN Fail(st, "Expected condition here")
    ELSE LET c == eval(args[1], st, d)
         IN IF c.err # "" THEN c
            ELSE IF c.v.k # "Bool" THEN Fail(c, "Expected boolean value here")
            ELSE IF Len(args) < 2 THEN Fail(c, "Expected true branch here")
            ELSE IF c.v.b THEN EvalBranch(args[2], c, d)
            ELSE IF Len(args) >= 3 /\ args[3].t = "Atom" /\ args[3].s = "else"
                 THEN IF Len(args) < 4 THEN Fail(c, "Expected false branch here")
                      ELSE EvalBranch(args[4], c, d)
            ELSE Ok(c, Void)

\* a variant of CountLoop over the closed range start..=end
CountLoopInclusive(name, i, end, body, st, d) ==
    IF i > end THEN Ok(st, Void)
    ELSE LET bound == [st EXCEPT !.env = Insert(@, name, IntV(i)),
                                 !.iters = Append(@, <<d, name, IntV(i)>>)]
             r == eval_list(body, bound, d + 1)
         IN IF r.err # "" THEN r
            ELSE CountLoopInclusive(name, i + 1, end, body, r, d)

\* a variant of CountLoop that steps from the value the body left in the variable
CountLoopReread(name, i, end, body, st, d) ==
    IF i >= end THEN Ok(st, Void)
    ELSE LET bound == [st EXCEPT !.env = Insert(@, name, IntV(i)),
                                 !.iters = Append(@, <<d, name, IntV(i)>>)]
             r == eval_list(body, bound, d + 1)
             j == IF name \in DOMAIN r.env /\ r.env[name].k = "Int"
                  THEN r.env[name].n ELSE i
         IN IF r.err # "" THEN r
            ELSE CountLoopReread(name, j + 1, end, body, r, d)

\* a variant of CountLoop that leaves the variable at the bound that ended the loop
CountLoopCStyle(name, i, end, body, st, d) ==
    IF i >= end THEN Ok([st EXCEPT !.env = Insert(@, name, IntV(i))], Void)
    ELSE LET bound == [st EXCEPT !.env = Insert(@, name, IntV(i)),
                                 !.iters = Append(@, <<d, name, IntV(i)>>)]
             r == eval_list(body, bound, d + 1)
         IN IF r.err # "" THEN r
            ELSE CountLoopCStyle(name, i + 1, end, body, r, d)

\* "count" arm: for i in start..end { insert(var_name, Int(i)); eval_list(body) }
CountLoop(name, i, end, body, st, d) ==
    IF i >= end THEN Ok(st, Void)
    ELSE LET bound == [st EXCEPT !.env = Insert(@, name, IntV(i)),
                                 !.iters = Append(@, <<d, name, IntV(i)>>)]
             r == eval_list(body, bound, d + 1)
         IN IF r.err # "" THEN r
            ELSE CountLoop(name, i + 1, end, body, r, d)

\* "count" arm
EvalCount(args, st, d) ==
    IF args = <<>> \/ args[1].t # "Atom" THEN Fail(st, "Expected variable name here")
    ELSE IF Len(args) < 2 \/ args[2].t # "Atom" \/ args[2].s # "from"
         THEN Fail(st, "Expected from keyword here")
    ELSE IF Len(args) < 3 THEN Fail(st, "Expected start value here")
    ELSE LET start == eval(args[3], st, d)
         IN IF start.err # "" THEN start
            ELSE IF start.v.k # "Int" THEN Fail(start, "Expected integer value here")
            ELSE IF Len(args) < 4 \/ args[4].t # "Atom" \/ args[4].s # "to"
                 THEN Fail(start, "Expected to keyword here")
            ELSE IF Len(args) < 5 THEN Fail(start, "Expected end value here")
            ELSE LET end == eval(args[5], start, d)
                 IN IF end.err # "" THEN end
                    ELSE IF end.v.k # "Int" THEN Fail(end, "Expected integer value here")
                    ELSE IF Len(args) < 6 THEN Fail(end, "Expected body here")
                    ELSE IF args[6].t # "List" THEN Fail(end, "Expected list here")
                    ELSE CountLoop(args[1].s, start.v.n, end.v.n, args[6].l, end, d)

\* Interpreter::eval
eval(sexpr, st, d) ==
    IF sexpr.t = "Atom" THEN eval_atom(sexpr.s, st)
    ELSE IF sexpr.l = <<>> \/ sexpr.l[1].t # "Atom"
         THEN Fail(st, "Expected function name here")
    ELSE LET name == sexpr.l[1].s
             args == Tail(sexpr.l)
         IN CASE name = "print" -> PrintEach(args, st, d)
              [] name = "format" -> EvalFormat(args, st, d)
              [] name = "let" -> EvalLet(args, st, d)
              [] name = "set" -> EvalSet(args, st, d)
              [] name = "get" -> EvalGet(args, st)
              [] name = "inc" -> EvalInc(args, st)
              [] name = "mod" -> EvalMod(args, st, d)
              [] name = "eq" -> EvalEq(args, st, d)
              [] name = "if" -> EvalIf(args, st, d)
              [] name = "count" -> EvalCount(args, st, d)
              [] OTHER -> Fail(st, "Unknown function")

\* Interpreter::eval_list
eval_list(list, st, d) ==
    IF list = <<>> THEN Ok(st, Void)
    ELSE LET r == eval(Head(list), st, d)
         IN IF r.err # "" THEN r ELSE eval_list(Tail(list), r, d)

----------------------------------------------------------------------------
(* The scripts of the model: the top-level expressions eval_file may meet. *)

A(text) == Atom(text)
L(items) == List(items)
Call1(head, a) == L(<<A(head), a>>)
Call2(head, a, b) == L(<<A(head), a, b>>)
Call3(head, a, b, c) == L(<<A(head), a, b, c>>)
Seq1(stmt) == L(<<stmt>>)
Seq2(s1, s2) == L(<<s1, s2>>)
Count(name, from, to, body) ==
    L(<<A("count"), A(name), A("from"), from, A("to"), to, body>>)
IfElse(c, tb, fb) == L(<<A("if"), c, tb, A("else"), fb>>)

\* the text of the largest integer literal
MaxLit == ToString(IntMax)
MinLit == ToString(IntMin)

Get(name) == Call1("get", A(name))
Inc(name) == Call1("inc", A(name))
PrintGet(name) == Call1("print", Get(name))

LetForms ==
    {Call2("let", A(n), e) :
        n \in {"x", "y"},
        e \in {A("5"), A("2.5"), A(MaxLit), Call1("format", A("a"))}}
    \cup {Call2("let", A("x"), e) :
            e \in {A("true"), A("foo"), L(<<A("print")>>), Inc("y"), Get("y")}}

SetForms ==
    {Call2("set", A(n), e) : n \in {"x", "i"}, e \in {A("1"), A("-1.5"), Get("y")}}

GetForms == {Get(n) : n \in {"x", "y", "i"}}

IncForms == {Inc(n) : n \in {"x", "y", "i"}}

PrintForms ==
    { L(<<A("print")>>),
      PrintGet("x"),
      Call2("print", A("1"), A("2.5")),
      Call3("print", Get("x"), Inc("x"), Get("y")),
      Call2("print", A("true"), Call2("format", A("v{}"), Get("y"))) }

FormatForms ==
    { Call1("format", A("a")),
      Call2("format", A("{}"), Get("x")),
      Call1("format", A("v{}")),
      Call3("format", A("{}"), A("1"), A("2")),
      L(<<A("format")>>),
      Call1("format", L(<<A("get"), A("x")>>)) }

ModForms ==
    { Call2("mod", A("7"), A("3")),
      Call2("mod", A("7.5"), A("2")),
      Call2("mod", A("2"), A("7.0")),
      Call2("mod", A("-7"), A("3")),
      Call2("mod", A("7"), A("0")),
      Call2("mod", A(MinLit), A("-1")),
      Call2("mod", A("7.5"), A("0.0")),
      Call2("mod", A("-2"), A("1.0")),
      Call2("mod", A("true"), A("1")),
      Call2("mod", Get("x"), Get("y")),
      Call2("mod", Inc("x"), A("3")) }

EqForms ==
    { Call2("eq", A("1"), A("1")),
      Call2("eq", A("1"), A("2")),
      Call2("eq", A("1"), A("1.0")),
      Call2("eq", A("1.0"), A("1.0")),
      Call2("eq", A("NaN"), A("NaN")),
      Call2("eq", A("true"), A("false")),
      Call2("eq", A("true"), A("1")),
      Call2("eq", Call1("format", A("a")), Call1("format", A("a"))),
      Call2("eq", Call1("format", A("a")), Call1("format", A("b"))),
      Call2("eq", L(<<A("print")>>), Call2("let", A("y"), A("1"))),
      Call2("eq", Get("x"), Get("y")),
      Call2("eq", Get("x"), A("5")),
      Call2("eq", A("\"a\""), A("\"a\"")),
      Call2("eq", A("a"), A("a")) }

Print1 == Call1("print", A("1"))
Print2 == Call1("print", A("2"))

IfForms ==
    { Call2("if", A("false"), Print1),
      IfElse(A("true"), Print1, Print2),
      IfElse(A("false"), Print1, Print2),
      Call2("if", A("false"), Seq1(Print1)),
      Call2("if", A("true"), Seq1(Print1)),
      IfElse(A("true"), Seq1(Print1), Seq1(Print2)),
      IfElse(A("false"), Seq1(Print1), Seq1(Print2)),
      IfElse(A("true"), A("1"), A("2")),
      IfElse(A("false"), A("1"), A("2")),
      IfElse(A("1"), Seq1(Print1), Seq1(Print2)),
      IfElse(Call2("eq", Get("x"), A("5")), Seq2(Inc("x"), PrintGet("x")), Seq1(Inc("y"))),
      Call3("if", A("false"), Seq1(Print1), Seq1(Print2)) }

CountForms ==
    { Count("i", A("0"), A("3"), PrintGet("i")),
      Count("i", A("5"), A("5"), PrintGet("i")),
      Count("i", A("0"), A("3"), Seq1(PrintGet("i"))),
      Count("i", A("5"), A("5"), Seq1(PrintGet("i"))),
      Count("i", A("3"), A("1"), Seq1(PrintGet("i"))),
      Count("x", A("-1"), A("2"), L(<<>>)),
      Count("i", A("0"), A("3"), Seq2(PrintGet("i"), Inc("i"))),
      Count("i", A("1"), A("3"), Seq1(Call2("let", A("i"), A("7.5")))),
      Count("i", A("0"), A("2"), Seq1(Call2("set", A("i"), A("5")))),
      Count("i", A("0"), A("2"), Seq1(Count("i", A("5"), A("7"), Seq1(PrintGet("i"))))),
      Count("i", Get("x"), Inc("y"), Seq1(Inc("x"))),
      Count("y", Inc("x"), Get("x"), Seq1(PrintGet("y"))),
      Count("i", A("0"), A("3"), Seq1(Inc("y"))),
      Count("i", A("0"), A("2.5"), Seq1(PrintGet("i"))),
      Count("i", A("0"), A("3"), A("1")) }

\* expressions with too few or too many arguments
ArityForms ==
    { L(<<A("let")>>), Call1("let", A("x")), Call3("let", A("x"), A("1"), A("2")),
      Call1("set", A("x")), Call3("set", A("x"), A("1"), A("2")),
      L(<<A("get")>>), Call2("get", A("x"), A("y")),
      L(<<A("inc")>>), Call2("inc", A("x"), A("y")),
      L(<<A("mod")>>), Call1("mod", A("7")), Call3("mod", A("7"), A("3"), A("9")),
      L(<<A("eq")>>), Call1("eq", A("1")), Call3("eq", A("1"), A("1"), A("1")),
      L(<<A("if")>>), Call1("if", A("true")), Call1("if", A("false")),
      Call3("if", A("false"), A("1"), A("else")),
      L(<<A("if"), A("true"), A("1"), A("else"), A("2"), A("3")>>),
      L(<<A("if"), A("false"), A("1"), A("else"), A("2"), A("3")>>),
      L(<<A("count")>>), Call1("count", A("i")),
      L(<<A("count"), A("i"), A("from"), A("0"), A("to"), A("3")>>),
      L(<<A("count"), A("i"), A("from"), A("0"), A("to"), A("3"), L(<<>>), A("9")>>) }

\* expressions eval rejects before any arm runs, and a bare atom
OtherForms == { L(<<>>), L(<<L(<<A("get"), A("x")>>)>>), Call1("call", A("x")), A("7"), A("x") }

Forms ==
    LetForms \cup SetForms \cup GetForms \cup IncForms \cup PrintForms \cup FormatForms
        \cup ModForms \cup EqForms \cup IfForms \cup CountForms \cup ArityForms
        \cup OtherForms

----------------------------------------------------------------------------
(* The run: Interpreter::new, then eval_file's loop over the script. *)

NoVars == [n \in {} |-> Void]

Init ==
    /\ env = NoVars
    /\ out = <<>>
    /\ panic = ""
    /\ build \in {"debug", "release"}
    /\ nforms = 0
    /\ last = [form |-> L(<<>>), repeat |-> FALSE, env0 |-> NoVars, out0 |-> <<>>,
               v |-> Void, iters |-> <<>>]

\* eval_file: self.eval(&sexpr) for the next expression of the script
EvalTop(sexpr) ==
    /\ panic = ""
    /\ nforms < MaxForms
    /\ LET r == eval(sexpr, [v |-> Void, env |-> env, out |-> out, iters |-> <<>>,
                             err |-> ""], 0)
       IN /\ env' = r.env
          /\ out' = r.out
          /\ panic' = r.err
          /\ last' = [form |-> sexpr, repeat |-> (nforms > 0 /\ sexpr = last.form), env0 |-> env, out0 |-> out,
                      v |-> r.v, iters |-> r.iters]
    /\ nforms' = nforms + 1
    /\ UNCHANGED build

Next ==
    \/ \E f \in LetForms \cup SetForms : EvalTop(f)
    \/ \E f \in GetForms \cup IncForms : EvalTop(f)
    \/ \E f \in PrintForms \cup FormatForms : EvalTop(f)
    \/ \E f \in ModForms \cup EqForms : EvalTop(f)
    \/ \E f \in IfForms : EvalTop(f)
    \/ \E f \in CountForms : EvalTop(f)
    \/ \E f \in ArityForms \cup OtherForms : EvalTop(f)

Spec == Init /\ [][Next]_vars

----------------------------------------------------------------------------
(* Vocabulary of the properties: the latest top-level evaluation. *)

\* the state the latest top-level expression was evaluated in
Pre == [v |-> Void, env |-> last.env0, out |-> last.out0, iters |-> <<>>, err |-> ""]
\* the lines the latest top-level expression printed
Printed == SubSeq(out, Len(last.out0) + 1, Len(out))
LastArgs == Tail(last.form.l)
\* the latest top-level expression is head applied to n arguments
LastIs(head, n) ==
    /\ nforms > 0
    /\ last.form.t = "List"
    /\ Len(last.form.l) = n + 1
    /\ last.form.l[1] = A(head)

\* the panics that stand for the error kinds of the design
ArityError ==
    {"Expected end of list here", "Expected value here", "Expected variable name here",
     "Expected left value here", "Expected right value here", "Expected condition here",
     "Expected true branch here", "Expected false branch here",
     "Expected from keyword here", "Expected start value here",
     "Expected to keyword here", "Expected end value here", "Expected body here",
     "Expected format string here"}
TypeMismatchError ==
    {"Variable is not an integer", "Expected integer or float values here",
     "Expected boolean value here", "Expected integer value here"}
UnboundVariableError == {"Variable not found"}

\* the latest top-level expression is (count name from a to b (body...)) whose two
\* bounds evaluated to Int
LastIsCount ==
    /\ LastIs("count", 6)
    /\ LastArgs[1].t = "Atom" /\ LastArgs[2] = A("from") /\ LastArgs[4] = A("to")
    /\ LastArgs[6].t = "List"
    /\ LET a == eval(LastArgs[3], Pre, 0)
       IN /\ a.err = "" /\ a.v.k = "Int"
          /\ LET b == eval(LastArgs[5], a, 0) IN b.err = "" /\ b.v.k = "Int"
CountName == LastArgs[1].s
CountStartSt == eval(LastArgs[3], Pre, 0)
CountEndSt == eval(LastArgs[5], CountStartSt, 0)
CountStart == CountStartSt.v.n
CountEnd == CountEndSt.v.n
\* the iterations of the outermost loop of the latest expression, in order
OuterIters == SelectSeq(last.iters, LAMBDA e : e[1] = 0)
Max0(n) == IF n < 0 THEN 0 ELSE n

RECURSIVE Rebinds(_, _)
\* expression e holds a let, set, inc or count of name
Rebinds(e, name) ==
    /\ e.t = "List"
    /\ \/ /\ Len(e.l) >= 2
          /\ e.l[1].t = "Atom" /\ e.l[1].s \in {"let", "set", "inc", "count"}
          /\ e.l[2] = A(name)
       \/ \E k \in 1 .. Len(e.l) : Rebinds(e.l[k], name)

----------------------------------------------------------------------------
(* C1 *)

\* C1 as stated: (count i from 0 to 3 (print (get i))) prints 0, 1, 2 and nothing
\* else, and (count i from 5 to 5 (print (get i))) prints nothing.
C1_AsStated ==
    /\ (nforms > 0 /\ last.form = Count("i", A("0"), A("3"), PrintGet("i")))
          => (panic = "" /\ Printed = <<"0", "1", "2">>)
    /\ (nforms > 0 /\ last.form = Count("i", A("5"), A("5"), PrintGet("i")))
          => (panic = "" /\ Printed = <<>>)

\* C1, amended: the body of count is a list of statements.  A count with Int bounds
\* that completes has run its body once per integer of [start, end), ascending, the
\* loop variable bound to that integer, zero times when start >= end, and yields
\* Void; (count i from 0 to 3 ((print (get i)))) prints 0, 1, 2 and nothing else and
\* (count i from 5 to 5 (print (get i))) prints nothing.
C1_HalfOpenRange ==
    /\ (LastIsCount /\ panic = "") =>
          /\ Len(OuterIters) = Max0(CountEnd - CountStart)
          /\ \A k \in 1 .. Len(OuterIters) :
                OuterIters[k] = <<0, CountName, IntV(CountStart + k - 1)>>
          /\ last.v = Void
    /\ (nforms > 0 /\ last.form = Count("i", A("0"), A("3"), Seq1(PrintGet("i"))))
          => (panic = "" /\ Printed = <<"0", "1", "2">> /\ last.v = Void)
    /\ (nforms > 0 /\ last.form \in {Count("i", A("5"), A("5"), PrintGet("i")),
                                     Count("i", A("5"), A("5"), Seq1(PrintGet("i")))})
          => (panic = "" /\ Printed = <<>> /\ last.v = Void)

C1_Witness ==
    /\ nforms > 0
    /\ last.form = Count("i", A("0"), A("3"), Seq1(PrintGet("i")))
    /\ Printed = <<"0", "1", "2">>

----------------------------------------------------------------------------
(* C2 *)

\* C2 as stated: (if true (print 1) else (print 2)) prints 1 only.
C2_AsStated ==
    (nforms > 0 /\ last.form = IfElse(A("true"), Print1, Print2))
        => (panic = "" /\ Printed = <<"1">>)

\* the outcome of the latest expression is that of evaluating branch alone after
\* the condition
OnlyBranch(branch, c) ==
    LET r == EvalBranch(branch, c, 0)
    IN env = r.env /\ out = r.out /\ panic = r.err /\ last.v = r.v

\* C2, amended: a branch of if is an atom or a list of statements.  Once the
\* condition has evaluated: true runs the true-branch only; false with an else
\* clause runs the false-branch only; false without one runs nothing and yields
\* Void; a condition that is not Bool panics (type mismatch).
\* (if false (print 1)) prints nothing and yields Void;
\* (if true ((print 1)) else ((print 2))) prints 1 only.
C2_OneBranch ==
    /\ \A n \in {2, 4} :
          (LastIs("if", n) /\ (n = 4 => LastArgs[3] = A("else"))
                /\ eval(LastArgs[1], Pre, 0).err = "") =>
             LET c == eval(LastArgs[1], Pre, 0)
             IN /\ c.v = BoolV(TRUE) => OnlyBranch(LastArgs[2], c)
                /\ (c.v = BoolV(FALSE) /\ n = 4) => OnlyBranch(LastArgs[4], c)
                /\ (c.v = BoolV(FALSE) /\ n = 2) =>
                      (env = c.env /\ out = c.out /\ panic = "" /\ last.v = Void)
                /\ c.v.k # "Bool" =>
                      (panic = "Expected boolean value here" /\ env = c.env /\ out = c.out)
    /\ (nforms > 0 /\ last.form = Call2("if", A("false"), Print1))
          => (panic = "" /\ Printed = <<>> /\ last.v = Void /\ env = last.env0)
    /\ (nforms > 0 /\ last.form = IfElse(A("true"), Seq1(Print1), Seq1(Print2)))
          => (panic = "" /\ Printed = <<"1">>)
    /\ (nforms > 0 /\ last.form = IfElse(A("false"), Seq1(Print1), Seq1(Print2)))
          => (panic = "" /\ Printed = <<"2">>)

C2_Witness ==
    /\ nforms > 0
    /\ last.form = IfElse(A("true"), Seq1(Print1), Seq1(Print2))
    /\ Printed = <<"1">>

----------------------------------------------------------------------------
(* C3 *)

\* the number of arguments of the latest expression is not one its form takes
WrongArity ==
    /\ nforms > 0
    /\ last.form.t = "List" /\ last.form.l # <<>> /\ last.form.l[1].t = "Atom"
    /\ LET head == last.form.l[1].s
           n == Len(last.form.l) - 1
       IN \/ head \in {"let", "set", "mod", "eq"} /\ n # 2
          \/ head \in {"get", "inc"} /\ n # 1
          \/ head = "if" /\ n \notin {2, 4}
          \/ head = "count" /\ n # 6
          \/ head = "format" /\ n = 0

\* C3: a special form given too few or too many arguments, trailing tokens
\* included, fails with an arity panic and never returns a Value.
C3_ArityChecked == WrongArity => panic \in ArityError

----------------------------------------------------------------------------
(* C4 *)

\* the latest expression is (head a b) and both operands evaluated
LastIsBinary(head) ==
    /\ LastIs(head, 2)
    /\ LET l == eval(LastArgs[1], Pre, 0)
       IN l.err = "" /\ eval(LastArgs[2], l, 0).err = ""
LeftSt == eval(LastArgs[1], Pre, 0)
RightSt == eval(LastArgs[2], LeftSt, 0)

\* two values of one variant are equal; floats compare as numbers (IEEE 754)
SameValue(l, r) ==
    CASE l.k = "Int" -> l.n = r.n
      [] l.k = "Float" -> l.s # "NaN" /\ r.s # "NaN" /\ l.n = r.n
      [] l.k = "String" -> l.s = r.s
      [] l.k = "Bool" -> l.b = r.b
      [] OTHER -> TRUE

\* C4 as stated: (eq "a" "a") yields Bool(true), whether the atom the parser hands
\* over keeps the quotes or not.
C4_AsStated ==
    (nforms > 0 /\ last.form \in {Call2("eq", A("\"a\""), A("\"a\"")),
                                   Call2("eq", A("a"), A("a"))})
        => (panic = "" /\ last.v = BoolV(TRUE))

\* C4, amended: eq of two operand values of one variant yields the Bool telling
\* whether they are equal (floats as IEEE numbers, Null/Null and Void/Void always
\* true); of two different variants, Int and Float as in (eq 1 1.0) included, it
\* panics (type mismatch) and yields no Bool.  Two equal String values, as in
\* (eq (format a) (format a)), give Bool(true).
C4_EqStrict ==
    /\ LastIsBinary("eq") =>
          LET l == LeftSt.v
              r == RightSt.v
          IN /\ l.k = r.k =>
                   (panic = "" /\ last.v = BoolV(SameValue(l, r)) /\ env = RightSt.env)
             /\ l.k # r.k =>
                   (panic = "Expected integer or float values here" /\ last.v = Void)
    /\ (nforms > 0 /\ last.form = Call2("eq", A("1"), A("1.0")))
          => (panic \in TypeMismatchError /\ last.v # BoolV(FALSE))
    /\ (nforms > 0 /\ last.form =
            Call2("eq", Call1("format", A("a")), Call1("format", A("a"))))
          => (panic = "" /\ last.v = BoolV(TRUE))
    /\ nforms > 0 =>
          /\ EqMatch(Pre, Null, Null) = Ok(Pre, BoolV(TRUE))
          /\ \A other \in {IntV(0), FloatV(0), StringV(""), BoolV(FALSE), Void} :
                /\ EqMatch(Pre, Null, other).err \in TypeMismatchError
                /\ EqMatch(Pre, other, Null).err \in TypeMismatchError

C4_Witness ==
    /\ LastIsBinary("eq")
    /\ LeftSt.v.k = "Int" /\ RightSt.v.k = "Float"
    /\ panic \in TypeMismatchError

----------------------------------------------------------------------------
(* C5 *)

Numeric(val) == val.k \in {"Int", "Float"}

\* C5 as stated: mod yields a numeric remainder for every pair of numeric operands.
C5_AsStated ==
    (LastIsBinary("mod") /\ Numeric(LeftSt.v) /\ Numeric(RightSt.v))
        => (panic = "" /\ Numeric(last.v))

\* rem is the remainder of a by b # 0 that truncates toward zero
IsRemainder(rem, a, b) ==
    /\ Abs(rem) < Abs(b)
    /\ rem = 0 \/ (rem > 0) = (a > 0)
    /\ \E q \in (0 - Abs(a)) .. Abs(a) : a = q * b + rem

\* the halves of a numeric operand as a float
Halves(val) == IF val.k = "Int" THEN 2 * val.n ELSE val.n

\* C5, amended: for two Int operands with a divisor that is not zero (and not
\* MIN by -1) mod yields Int, the remainder truncating toward zero; a zero Int
\* divisor, and MIN by -1, panic.  With a Float operand the result is Float, the
\* Int operand widened first: the floating remainder, NaN for a zero divisor or a
\* NaN operand.  An operand that is not Int or Float panics (type mismatch).
\* (mod 7 3) is Int(1), (mod 7.5 2) is Float(1.5), (mod 2 7.0) is Float(2.0).
C5_ModWidening ==
    /\ LastIsBinary("mod") =>
          LET l == LeftSt.v
              r == RightSt.v
          IN /\ (l.k = "Int" /\ r.k = "Int") =>
                   IF r.n = 0 \/ (l.n = IntMin /\ r.n = -1)
                   THEN panic \in {"attempt to calculate the remainder with a divisor of zero",
                                   "attempt to calculate the remainder with overflow"}
                   ELSE panic = "" /\ last.v.k = "Int" /\ IsRemainder(last.v.n, l.n, r.n)
             /\ (Numeric(l) /\ Numeric(r) /\ "Float" \in {l.k, r.k}) =>
                   /\ panic = "" /\ last.v.k = "Float"
                   /\ IF l.s = "NaN" \/ r.s = "NaN" \/ Halves(r) = 0
                      THEN last.v = NaN
                      ELSE last.v.s # "NaN" /\ IsRemainder(last.v.n, Halves(l), Halves(r))
             /\ (~Numeric(l) \/ ~Numeric(r)) => panic \in TypeMismatchError
    /\ (nforms > 0 /\ last.form = Call2("mod", A("7"), A("3")))
          => (panic = "" /\ last.v = IntV(1))
    /\ (nforms > 0 /\ last.form = Call2("mod", A("7.5"), A("2")))
          => (panic = "" /\ last.v = FloatV(3) /\ to_string(last.v) = "1.5")
    /\ (nforms > 0 /\ last.form = Call2("mod", A("2"), A("7.0")))
          => (panic = "" /\ last.v = FloatV(4) /\ to_string(last.v) = "2")

C5_Witness ==
    /\ LastIsBinary("mod")
    /\ LeftSt.v.k = "Int" /\ RightSt.v.k = "Float"
    /\ last.v = FloatV(4)

----------------------------------------------------------------------------
(* C6 *)

\* the latest expression is (inc name) with name bound
LastIsIncOf(kinds) ==
    /\ LastIs("inc", 1)
    /\ LastArgs[1].t = "Atom"
    /\ LastArgs[1].s \in DOMAIN last.env0
    /\ last.env0[LastArgs[1].s].k \in kinds
IncName == LastArgs[1].s
IncOld == last.env0[IncName]

\* C6 as stated: for every name bound to Int(n), inc rebinds it to Int(n+1) and
\* returns Int(n+1).
C6_AsStated ==
    LastIsIncOf({"Int"}) =>
        /\ panic = ""
        /\ last.v = IntV(IncOld.n + 1)
        /\ env = Insert(last.env0, IncName, IntV(IncOld.n + 1))

\* C6, amended: inc rebinds a name bound to Int(n), n below the largest Int, to
\* Int(n+1) and returns it; at the largest Int the addition overflows: the build
\* with overflow checks panics and leaves the Environment as it was, the build
\* without them rebinds to the smallest Int.  Float(f) becomes Float(f + 1.0)
\* (Float(2.5) becomes Float(3.5)); String, Bool, Null or Void panics (type
\* mismatch).  No other binding changes.
C6_IncTypePreserving ==
    /\ LastIsIncOf({"Int"}) =>
          IF IncOld.n < IntMax
          THEN /\ panic = "" /\ last.v = IntV(IncOld.n + 1)
               /\ env = Insert(last.env0, IncName, IntV(IncOld.n + 1))
          ELSE \/ /\ build = "debug" /\ panic = "attempt to add with overflow"
                  /\ env = last.env0
               \/ /\ build = "release" /\ panic = "" /\ last.v = IntV(IntMin)
                  /\ env = Insert(last.env0, IncName, IntV(IntMin))
    /\ LastIsIncOf({"Float"}) =>
          /\ panic = "" /\ last.v.k = "Float"
          /\ last.v = (IF IncOld.s = "NaN" THEN NaN ELSE FloatV(IncOld.n + 2))
          /\ env = Insert(last.env0, IncName, last.v)
          /\ IncOld = FloatV(5) => to_string(last.v) = "3.5"
    /\ LastIsIncOf({"String", "Bool", "Null", "Void"}) =>
          (panic \in TypeMismatchError /\ env = last.env0)
    /\ LastIs("inc", 1) => out = last.out0

C6_Witness ==
    /\ LastIsIncOf({"Float"})
    /\ IncOld = FloatV(5)
    /\ last.v = FloatV(7)

----------------------------------------------------------------------------
(* C7 *)

\* C7: get and inc of a name absent from the Environment panic (unbound variable)
\* and leave the Environment as it was; get of a bound name returns the value the
\* name is bound to and leaves the Environment as it was.
C7_UnboundLookup ==
    /\ \A head \in {"get", "inc"} :
          (LastIs(head, 1) /\ LastArgs[1].t = "Atom"
                /\ LastArgs[1].s \notin DOMAIN last.env0) =>
             (panic \in UnboundVariableError /\ env = last.env0 /\ out = last.out0)
    /\ (LastIs("get", 1) /\ LastArgs[1].t = "Atom" /\ LastArgs[1].s \in DOMAIN last.env0) =>
          (panic = "" /\ last.v = last.env0[LastArgs[1].s] /\ env = last.env0
             /\ out = last.out0)
    \* the value a name is bound to is the one the latest let or set gave it
    /\ \A head \in {"let", "set"} :
          (LastIs(head, 2) /\ panic = "") =>
             LET r == eval(LastArgs[2], Pre, 0)
             IN eval(Get(LastArgs[1].s), [Pre EXCEPT !.env = env], 0).v = r.v

C7_Witness ==
    /\ nforms > 1
    /\ last.form = Get("y")
    /\ "y" \notin DOMAIN last.env0
    /\ last.env0 # NoVars
    /\ panic \in UnboundVariableError

----------------------------------------------------------------------------
(* C8 *)

\* the latest expression is (let name literal) and it returned
LastIsLetLiteral ==
    /\ LastIs("let", 2)
    /\ LastArgs[1].t = "Atom" /\ LastArgs[2].t = "Atom"
    /\ panic = ""

\* C8: binding a name to a literal binds exactly that name to the literal's value
\* and leaves every other binding alone, so that the same let evaluated a second
\* time in a row leaves the Environment as the first left it.
C8_LetIdempotent ==
    /\ LastIsLetLiteral =>
          /\ DOMAIN env = DOMAIN last.env0 \cup {LastArgs[1].s}
          /\ env[LastArgs[1].s] = eval_atom(LastArgs[2].s, Pre).v
          /\ \A n \in DOMAIN last.env0 \ {LastArgs[1].s} : env[n] = last.env0[n]
          /\ last.v = Void /\ out = last.out0
    /\ (LastIsLetLiteral /\ last.repeat) => env = last.env0
    /\ (LastIsLetLiteral /\ last.form = Call2("let", A("x"), A("5"))) => env["x"] = IntV(5)

C8_Witness ==
    /\ LastIsLetLiteral
    /\ last.repeat
    /\ last.form = Call2("let", A("x"), A("5"))
    /\ env = last.env0

----------------------------------------------------------------------------
(* C9 *)

\* C9: a count with Int bounds starts its k-th iteration (k from 0) with the loop
\* variable bound to Int(start + k), whatever the body rebinds, and one that
\* returns has run its body exactly max(0, end - start) times.
C9_FullRange ==
    LastIsCount =>
        /\ Len(OuterIters) <= Max0(CountEnd - CountStart)
        /\ \A k \in 0 .. Len(OuterIters) - 1 :
              /\ OuterIters[k + 1][2] = CountName
              /\ OuterIters[k + 1][3] = IntV(CountStart + k)
        /\ panic = "" => Len(OuterIters) = Max0(CountEnd - CountStart)
        /\ Len(OuterIters) < Max0(CountEnd - CountStart) => panic # ""

C9_Witness ==
    /\ LastIsCount
    /\ Rebinds(LastArgs[6], CountName)
    /\ panic = ""
    /\ Len(OuterIters) >= 2
    /\ env[CountName] # IntV(CountEnd - 1)

----------------------------------------------------------------------------
(* C10 *)

\* C10: after a count with start < end returns, the loop variable is bound,
\* whatever it was bound to before, and to Int(end - 1) when the body does not
\* rebind it; with start >= end the loop binds nothing: the Environment is as the
\* evaluation of the two bounds left it.
C10_LoopVariablePersists ==
    (LastIsCount /\ panic = "") =>
        /\ CountStart < CountEnd =>
              /\ CountName \in DOMAIN env
              /\ ~Rebinds(LastArgs[6], CountName) => env[CountName] = IntV(CountEnd - 1)
        /\ CountStart >= CountEnd => (env = CountEndSt.env /\ out = CountEndSt.out)

C10_Witness ==
    /\ LastIsCount /\ panic = ""
    /\ CountStart < CountEnd
    /\ ~Rebinds(LastArgs[6], CountName)
    /\ CountName \in DOMAIN last.env0
    /\ last.env0[CountName] # IntV(CountEnd - 1)
    /\ env[CountName] = IntV(CountEnd - 1)

====
